---- MODULE Spec2Model ----
(***************************************************************************)
(* Kistenliste: a roster of beer-crate entries read from Kistenliste.xlsx, *)
(* aggregated per person, and shown either as a generated index.html       *)
(* (kistenliste_analyzer.py, "batch") or as a Streamlit dashboard          *)
(* (streamlit_app.py, "interactive").                                      *)
(*                                                                         *)
(* Text is a sequence of one-character strings, so that trimming,          *)
(* lower-casing and splitting are computed as Python computes them.  A     *)
(* missing spreadsheet cell is the float NaN that pandas puts there.       *)
(***************************************************************************)
EXTENDS Integers, Sequences, FiniteSets, TLC

VARIABLES
    sheet,   \* Kistenliste.xlsx as it is on disk
    clock,   \* wall clock, read by datetime.now()
    cache,   \* the st.cache_data entry of streamlit_app.load_data
    page,    \* what the last run of streamlit_app.main put on the page
    html,    \* index.html on disk: the template and the report are this one file
    batch    \* outcome of the last run of kistenliste_analyzer.main

vars == <<sheet, clock, cache, page, html, batch>>

----------------------------------------------------------------------------
(* Bounds of the model *)

\* rows of a table of the aggregation inputs
MaxRows == 2
\* rows of a table of the ranking inputs
MaxRankRows == 4
\* rows of a spreadsheet that is edited between runs
MaxEditRows == 2
\* last value of the wall clock
MaxClock == 1

----------------------------------------------------------------------------
(* Python text *)

NaN == <<"NaN">>

Whitespace == {" ", "\t"}

Upper == <<"A", "B", "C", "D", "E", "F", "G", "H", "I", "J", "K", "L", "M",
           "N", "O", "P", "Q", "R", "S", "T", "U", "V", "W", "X", "Y", "Z">>

Lower == <<"a", "b", "c", "d", "e", "f", "g", "h", "i", "j", "k", "l", "m",
           "n", "o", "p", "q", "r", "s", "t", "u", "v", "w", "x", "y", "z">>

RECURSIVE lstrip(_)
lstrip(s) ==
    IF s # <<>> /\ Head(s) \in Whitespace THEN lstrip(Tail(s)) ELSE s

RECURSIVE rstrip(_)
rstrip(s) ==
    IF s # <<>> /\ s[Len(s)] \in Whitespace
    THEN rstrip(SubSeq(s, 1, Len(s) - 1))
    ELSE s

\* str.strip()
strip(s) == rstrip(lstrip(s))

lower_char(c) ==
    IF \E k \in 1..26 : Upper[k] = c
    THEN Lower[CHOOSE k \in 1..26 : Upper[k] = c]
    ELSE c

\* str.lower()
lower(s) == [k \in 1..Len(s) |-> lower_char(s[k])]

\* str.split(sep): the pieces between the separators, empty pieces kept
RECURSIVE split(_, _)
split(s, sep) ==
    IF \E k \in 1..Len(s) : s[k] = sep
    THEN LET k == CHOOSE k \in 1..Len(s) :
                      s[k] = sep /\ \A j \in 1..(k - 1) : s[j] # sep
         IN  <<SubSeq(s, 1, k - 1)>> \o split(SubSeq(s, k + 1, Len(s)), sep)
    ELSE <<s>>

\* str(x) of a cell: the float NaN prints as "nan"
str(x) == IF x = NaN THEN <<"n", "a", "n">> ELSE x

\* Series.fillna("")
fillna(x) == IF x = NaN THEN <<>> ELSE x

\* Series.str.strip() on one element of an object column: NaN stays NaN
str_strip(x) == IF x = NaN THEN NaN ELSE strip(x)

\* The .str accessor exists on object columns only.  read_excel gives a
\* column with cells but no text in any of them the dtype float64, and
\* df["Name"].str then raises AttributeError.
str_accessor_raises(col) ==
    Len(col) > 0 /\ \A k \in 1..Len(col) : col[k] = NaN

----------------------------------------------------------------------------
(* The spreadsheet and the loaded table *)

\* The outcome of pd.read_excel(..., sheet_name="Kistenliste"): it raises when
\* the file or the sheet cannot be read; otherwise the rows, each cell text or
\* NaN.  The column Anmerkung is optional.
Row(n, b, g, a) == [Name |-> n, Bezahlt |-> b, Grund |-> g, Anmerkung |-> a]

Sheet(rows, anm) == [readable |-> TRUE, anm |-> anm, rows |-> rows]

Unreadable == [readable |-> FALSE, anm |-> FALSE, rows |-> <<>>]

Column(df, c) == [k \in 1..Len(df) |-> df[k][c]]

\* BezahltStatus with a fault: the marker compared without regard to case.
BezahltStatusAnyCase(x) ==
    IF lower(x) = <<"j">> THEN "Bezahlt" ELSE "Offen"

\* lambda x: "Bezahlt" if x == "J" else "Offen"
BezahltStatus(x) ==
    IF x = <<"J">> THEN "Bezahlt" ELSE "Offen"

\* The body shared by the two load_data functions; raised means the call
\* ended in an exception.
load_frame(s) ==
    IF ~s.readable \/ str_accessor_raises(Column(s.rows, "Name"))
    THEN [raised |-> TRUE, df |-> <<>>]
    ELSE [raised |-> FALSE,
          df |-> [k \in 1..Len(s.rows) |->
                    LET bezahlt == strip(fillna(s.rows[k].Bezahlt))
                    IN  [Name |-> str_strip(s.rows[k].Name),
                         Bezahlt |-> bezahlt,
                         Grund |-> s.rows[k].Grund,
                         Anmerkung |-> s.rows[k].Anmerkung,
                         Bezahlt_Status |-> BezahltStatus(bezahlt)]]]

\* kistenliste_analyzer.load_data: no guard, the exception leaves the function
analyzer_load_data(s) == load_frame(s)

\* app_load_data with a fault: the try/except is missing.
app_load_data_unguarded(s) ==
    LET r == load_frame(s)
    IN  [none |-> FALSE, error |-> FALSE, raised |-> r.raised, df |-> r.df]

\* streamlit_app.load_data: an exception becomes st.error and the value None
app_load_data(s) ==
    LET r == load_frame(s)
    IN  [none |-> r.raised, error |-> r.raised, raised |-> FALSE, df |-> r.df]

----------------------------------------------------------------------------
(* Aggregation *)
\* count_status with a fault: the status is read off the raw marker, "J" or
\* blank.
count_status_by_marker(df, status) ==
    Cardinality({k \in 1..Len(df) :
                    df[k].Bezahlt = IF status = "Bezahlt" THEN <<"J">> ELSE <<>>})

\* len(df[df["Bezahlt_Status"] == status])
count_status(df, status) ==
    Cardinality({k \in 1..Len(df) : df[k].Bezahlt_Status = status})

\* Series.nunique(): NaN is not counted
nunique(col) == Cardinality({col[k] : k \in 1..Len(col)} \ {NaN})

\* The distinct values of a column in the order of their first appearance,
\* NaN dropped
RECURSIVE unique(_)
unique(col) ==
    IF col = <<>> THEN <<>>
    ELSE LET init == unique(SubSeq(col, 1, Len(col) - 1))
             x == col[Len(col)]
         IN  IF x = NaN \/ \E k \in 1..Len(init) : init[k] = x
             THEN init
             ELSE Append(init, x)

occurrences(col, x) == Cardinality({k \in 1..Len(col) : col[k] = x})

\* sorted_orders with a fault: the sort is ascending.
sorted_orders_ascending(keys, col) ==
    {p \in Permutations(1..Len(keys)) :
        \A k \in 1..(Len(keys) - 1) :
            occurrences(col, keys[p[k]]) <= occurrences(col, keys[p[k + 1]])}

\* Series.sort_values(ascending=False) with its default kind="quicksort": the
\* result is in non-increasing order, and the order of equal counts is
\* whatever the installed sort makes of it.  Each order is a permutation of
\* the positions of keys.
sorted_orders(keys, col) ==
    {p \in Permutations(1..Len(keys)) :
        \A k \in 1..(Len(keys) - 1) :
            occurrences(col, keys[p[k]]) >= occurrences(col, keys[p[k + 1]])}

\* Series.value_counts(): the results it can give
value_counts(col) ==
    LET keys == unique(col)
    IN  {[k \in 1..Len(keys) |->
            [key |-> keys[p[k]], count |-> occurrences(col, keys[p[k]])]] :
            p \in sorted_orders(keys, col)}

\* medals.get(x, ""): the three emoji are named here
medals(x) ==
    CASE x = 1 -> "gold"
      [] x = 2 -> "silver"
      [] x = 3 -> "bronze"
      [] OTHER -> ""

\* create_ranking_table, the same in both files: the tables it can return
create_ranking_table(df) ==
    {[k \in 1..Len(vc) |->
        [Rang |-> k, Medaille |-> medals(k), Name |-> vc[k].key,
         Anzahl |-> vc[k].count]] :
        vc \in value_counts(Column(df, "Name"))}

\* df[df["Bezahlt_Status"] == status].groupby("Name").size().get(name, 0)
group_size(df, status, name) ==
    Cardinality({k \in 1..Len(df) :
                    df[k].Bezahlt_Status = status /\ df[k].Name = name})

\* name_stats with a fault: the unpaid filter reads the raw marker for blank.
name_stats_blank_only(df) ==
    {[Name |-> name,
      Bezahlt |-> group_size(df, "Bezahlt", name),
      Offen |-> Cardinality({k \in 1..Len(df) :
                                df[k].Bezahlt = <<>> /\ df[k].Name = name}),
      Gesamt |-> group_size(df, "Bezahlt", name)
                 + Cardinality({k \in 1..Len(df) :
                                   df[k].Bezahlt = <<>> /\ df[k].Name = name})] :
        name \in {Column(df, "Name")[k] : k \in 1..Len(df)} \ {NaN}}

\* name_stats of create_person_chart and of create_visualizations: one row per
\* name of value_counts.  The rows are kept as a set: sort_values("Gesamt")
\* orders them and changes no row.
name_stats(df) ==
    {[Name |-> name,
      Bezahlt |-> group_size(df, "Bezahlt", name),
      Offen |-> group_size(df, "Offen", name),
      Gesamt |-> group_size(df, "Bezahlt", name) + group_size(df, "Offen", name)] :
        name \in {Column(df, "Name")[k] : k \in 1..Len(df)} \ {NaN}}

\* explode = (0.05, 0.05), in hundredths
explode == <<5, 5>>

\* ax.pie(bezahlt_counts.values, ..., explode=explode) raises ValueError
\* unless there is one wedge per element of explode
pie_raises(df) ==
    Cardinality({df[k].Bezahlt_Status : k \in 1..Len(df)}) # Len(explode)

\* head(10)
TopReasons == 10

\* df["Grund"].value_counts().head(10): the rows it can keep, as a set
grund_counts(df) ==
    LET col == Column(df, "Grund")
        all == {[Grund |-> g, Anzahl |-> occurrences(col, g)] :
                   g \in {col[k] : k \in 1..Len(col)} \ {NaN}}
        n == IF Cardinality(all) < TopReasons THEN Cardinality(all) ELSE TopReasons
    IN  {top \in SUBSET all :
            /\ Cardinality(top) = n
            /\ \A a \in top : \A b \in all \ top : a.Anzahl >= b.Anzahl}

\* grund_counts.plot(kind="barh"): what plotting can do.  Whether a bar plot
\* of no bars raises depends on the installed pandas.
reasons_plot_outcomes(counts) ==
    IF counts = {} THEN {"drawn", "raised"} ELSE {"drawn"}

----------------------------------------------------------------------------
(* Open boxes per person *)

\* "geteilte kisten"
SharedName ==
    <<"g", "e", "t", "e", "i", "l", "t", "e", " ", "k", "i", "s", "t", "e", "n">>

\* [n.strip() for n in anmerkung.split(",") if n.strip()]
shared_names(anmerkung) ==
    LET parts == split(anmerkung, ",")
    IN  SelectSeq([k \in 1..Len(parts) |-> strip(parts[k])],
                  LAMBDA n : n # <<>>)

\* The annotations of the inputs, and the longest list one of them names
Anmerkungen ==
    {NaN,
     <<>>,
     <<" ", ",", " ">>,
     <<"A">>,
     <<"A", ",", " ", "C">>,
     <<"A", ",", "A">>,
     <<"A", ",", "A", ",", "C">>,
     <<"A", ",", "B", ",", " ", "C">>}

MostShared ==
    LET lens == {Len(shared_names(str(a))) : a \in Anmerkungen}
    IN  CHOOSE n \in lens : \A m \in lens : m <= n

RECURSIVE Gcd(_, _)
Gcd(a, b) == IF b = 0 THEN a ELSE Gcd(b, a % b)

RECURSIVE LcmUpTo(_)
LcmUpTo(n) ==
    IF n <= 1 THEN 1 ELSE (LcmUpTo(n - 1) * n) \div Gcd(LcmUpTo(n - 1), n)

\* The float 1.0 as a whole number of units, so that 1.0 / len(shared_names)
\* is a whole number too.  Sums of these floats differ from the exact sums by
\* far less than the distance of any multiple of 1/Unit to a rounding tie.
Unit == LcmUpTo(MostShared)

\* name_counts.get(key, 0) + amount, stored under key
dict_add(d, key, amount) ==
    IF key \in DOMAIN d
    THEN [d EXCEPT ![key] = @ + amount]
    ELSE d @@ (key :> amount)

\* for shared_name in shared_names: name_counts[shared_name] += fraction
RECURSIVE add_shared(_, _, _)
add_shared(d, names, fraction) ==
    IF names = <<>> THEN d
    ELSE add_shared(dict_add(d, Head(names), fraction), Tail(names), fraction)

\* credit_row with a fault: the name is compared with the sentinel as written.
credit_row_case_sensitive(d, row, anm) ==
    LET name == strip(str(row.Name))
    IN  IF name = SharedName
        THEN LET anmerkung == IF anm THEN str(row.Anmerkung) ELSE <<>>
             IN  IF anmerkung # <<>> /\ anmerkung # <<"n", "a", "n">>
                 THEN LET names == shared_names(anmerkung)
                          fraction == IF names # <<>> THEN Unit \div Len(names) ELSE 0
                      IN  add_shared(d, names, fraction)
                 ELSE d
        ELSE dict_add(d, name, Unit)

\* One pass of the loop over open_df.iterrows(); anm says whether the table
\* has the column Anmerkung (row.get("Anmerkung", "") is "" without it).
credit_row(d, row, anm) ==
    LET name == strip(str(row.Name))
    IN  IF lower(name) = SharedName
        THEN LET anmerkung == IF anm THEN str(row.Anmerkung) ELSE <<>>
             IN  IF anmerkung # <<>> /\ anmerkung # <<"n", "a", "n">>
                 THEN LET names == shared_names(anmerkung)
                          fraction == IF names # <<>> THEN Unit \div Len(names) ELSE 0
                      IN  add_shared(d, names, fraction)
                 ELSE d
        ELSE dict_add(d, name, Unit)

RECURSIVE name_counts(_, _)
name_counts(open_df, anm) ==
    IF open_df = <<>> THEN [key \in {} |-> 0]
    ELSE credit_row(name_counts(SubSeq(open_df, 1, Len(open_df) - 1), anm),
                    open_df[Len(open_df)], anm)

\* Series.round(2) of units, in hundredths: to the nearest, ties to even
round2(units) ==
    LET q == (units * 100) \div Unit
        r == (units * 100) % Unit
    IN  IF 2 * r < Unit THEN q
        ELSE IF 2 * r > Unit THEN q + 1
        ELSE IF q % 2 = 0 THEN q ELSE q + 1

\* create_open_boxes_table: one row per key of name_counts, Offene_Kisten in
\* hundredths.  The rows are kept as a set: sort_values orders them and
\* changes no row.
create_open_boxes_table(df, anm) ==
    LET open_df == SelectSeq(df, LAMBDA row : row.Bezahlt_Status = "Offen")
        counts == name_counts(open_df, anm)
    IN  {[Name |-> name, Offene_Kisten |-> round2(counts[name])] :
            name \in DOMAIN counts}

----------------------------------------------------------------------------
(* streamlit_app.main: one load of the page *)

Sections ==
    {"metrics", "open_boxes", "person_chart", "payment_chart", "reasons_chart",
     "ranking"}

\* The page before any load
NoPage ==
    [status |-> "none", stamp |-> 0, error |-> FALSE, sections |-> {},
     metrics |-> [Gesamt |-> 0, Bezahlt |-> 0, Offen |-> 0, Personen |-> 0],
     open_boxes |-> {}, name_stats |-> {}, reasons |-> {}, ranking |-> <<>>]

EmptyCache ==
    [filled |-> FALSE, anm |-> FALSE,
     value |-> [none |-> FALSE, error |-> FALSE, raised |-> FALSE, df |-> <<>>]]

\* @st.cache_data on load_data(), which takes no argument: every call has the
\* same key, so the first value returned (None too) is the value of every
\* later call until the cache is cleared.  anm says whether the table has the
\* column Anmerkung.
cached_load_data(c, s) ==
    IF c.filled
    THEN [anm |-> c.anm, value |-> c.value]
    ELSE [anm |-> s.anm, value |-> app_load_data(s)]

\* create_reasons_chart: the charts it can draw, or the exception
create_reasons_chart(df) ==
    UNION {{[raised |-> plot = "raised", reasons |-> counts] :
                plot \in reasons_plot_outcomes(counts)} :
            counts \in grund_counts(df)}

\* main, statement by statement.  st.stop() ends the run after the error
\* message; an exception that leaves main keeps what was put on the page
\* before it.
PageLoad ==
    /\ \E got \in {cached_load_data(cache, sheet)} :
       LET r == got.value
           df == r.df
           header == [NoPage EXCEPT !.stamp = clock]
       IN  /\ cache' = IF r.raised THEN cache
                       ELSE [filled |-> TRUE, anm |-> got.anm, value |-> r]
           /\ IF r.raised
              THEN page' = [header EXCEPT !.status = "exception"]
              ELSE IF r.none
              THEN page' = [header EXCEPT !.status = "stopped", !.error = r.error]
              ELSE \E upto_person_chart \in
                      {[header EXCEPT
                          !.metrics = [Gesamt |-> Len(df),
                                       Bezahlt |-> count_status(df, "Bezahlt"),
                                       Offen |-> count_status(df, "Offen"),
                                       Personen |-> nunique(Column(df, "Name"))],
                          !.open_boxes = create_open_boxes_table(df, got.anm),
                          !.name_stats = name_stats(df),
                          !.sections = {"metrics", "open_boxes", "person_chart"}]} :
                   IF pie_raises(df)
                   THEN page' = [upto_person_chart EXCEPT !.status = "exception"]
                   ELSE \E chart \in create_reasons_chart(df) :
                        IF chart.raised
                        THEN page' = [upto_person_chart EXCEPT
                                        !.status = "exception",
                                        !.sections = @ \cup {"payment_chart"}]
                        ELSE \E ranking \in create_ranking_table(df) :
                             page' = [upto_person_chart EXCEPT
                                        !.status = "rendered",
                                        !.reasons = chart.reasons,
                                        !.ranking = ranking,
                                        !.sections = Sections]
    /\ UNCHANGED <<sheet, clock, html, batch>>

\* The server is restarted, or the cache is cleared from the menu.
ClearCache ==
    /\ cache.filled
    /\ cache' = EmptyCache
    /\ UNCHANGED <<sheet, clock, page, html, batch>>

----------------------------------------------------------------------------
(* kistenliste_analyzer.main: one batch run *)

NoStats ==
    [Gesamt |-> 0, Bezahlt |-> 0, Offen |-> 0, Personen |-> 0, Gruende |-> 0]

NoFig == [name_stats |-> {}, bezahlt_counts |-> <<0, 0>>, grund_counts |-> {}]

\* index.html as shipped: every placeholder still in it
Template ==
    [kind |-> "template", stamp |-> 0, gesamt |-> 0, bezahlt |-> 0, offen |-> 0,
     personen |-> 0, image |-> NoFig, ranking_rows |-> <<>>]

NoHtml == [Template EXCEPT !.kind = "missing"]

\* The record of a run: how it ended, where it raised, and the table and the
\* statistics it had computed by then
NoBatch ==
    [status |-> "none", stage |-> "", loaded |-> FALSE, df |-> <<>>,
     stats |-> NoStats, stamp |-> 0]

create_statistics_table(df) ==
    [Gesamt |-> Len(df),
     Bezahlt |-> count_status(df, "Bezahlt"),
     Offen |-> count_status(df, "Offen"),
     Personen |-> nunique(Column(df, "Name")),
     Gruende |-> nunique(Column(df, "Grund"))]

\* create_visualizations: the figures it can return, each by the data it
\* draws, or the exception of the pie or of the bar plot of the reasons
create_visualizations(df) ==
    IF pie_raises(df)
    THEN {[raised |-> TRUE, fig |-> NoFig]}
    ELSE UNION {{[raised |-> plot = "raised",
                  fig |-> IF plot = "raised" THEN NoFig
                          ELSE [name_stats |-> name_stats(df),
                                bezahlt_counts |-> <<count_status(df, "Bezahlt"),
                                                     count_status(df, "Offen")>>,
                                grund_counts |-> counts]] :
                    plot \in reasons_plot_outcomes(counts)} :
                counts \in grund_counts(df)}

\* One <tr> per row: the medal, or the rank and a dot where there is none
ranking_html(ranking) ==
    [k \in 1..Len(ranking) |->
        [Medaille |-> ranking[k].Medaille,
         Rang |-> IF ranking[k].Medaille # "" THEN 0 ELSE ranking[k].Rang,
         Name |-> ranking[k].Name,
         Anzahl |-> ranking[k].Anzahl]]

\* html_content.replace("{{...}}", value), seven times: a placeholder that is
\* in the text becomes its value, and a text without placeholders stays as
\* it is.
replace_placeholders(h, fig, stats, ranking, now) ==
    IF h.kind = "template"
    THEN [kind |-> "report", stamp |-> now, gesamt |-> stats.Gesamt,
          bezahlt |-> stats.Bezahlt, offen |-> stats.Offen,
          personen |-> stats.Personen, image |-> fig,
          ranking_rows |-> ranking_html(ranking)]
    ELSE h

\* save_dashboard: template_path and output_file are both "index.html".  With
\* no such file the else branch assigns nothing to html_content, and the
\* first replace raises UnboundLocalError before anything is written.
save_dashboard(h, fig, stats, ranking, now) ==
    IF h.kind = "missing"
    THEN [raised |-> TRUE, html |-> h]
    ELSE [raised |-> FALSE,
          html |-> replace_placeholders(h, fig, stats, ranking, now)]

\* main, statement by statement.  An exception ends the run where it is
\* raised.
BatchRun ==
    /\ \E load \in {analyzer_load_data(sheet)} :
       LET df == load.df
           ran == [NoBatch EXCEPT !.status = "raised", !.stamp = clock]
       IN  IF load.raised
           THEN /\ html' = html
                /\ batch' = [ran EXCEPT !.stage = "load_data"]
           ELSE \E loaded \in {[ran EXCEPT !.loaded = TRUE, !.df = df,
                                           !.stats = create_statistics_table(df)]} :
                \E figures \in {create_visualizations(df)} :
                \E ranking \in create_ranking_table(df) :
                \E drawn \in figures :
                    IF drawn.raised
                    THEN /\ html' = html
                         /\ batch' = [loaded EXCEPT !.stage = "create_visualizations"]
                    ELSE \E saved \in {save_dashboard(html, drawn.fig, loaded.stats,
                                                      ranking, clock)} :
                         IF saved.raised
                         THEN /\ html' = html
                              /\ batch' = [loaded EXCEPT !.stage = "save_dashboard"]
                         ELSE /\ html' = saved.html
                              /\ batch' = [loaded EXCEPT !.status = "done"]
    /\ UNCHANGED <<sheet, clock, cache, page>>

\* index.html is deleted, or moved away.
DeleteHtml ==
    /\ html.kind # "missing"
    /\ html' = NoHtml
    /\ UNCHANGED <<sheet, clock, cache, page, batch>>

\* index.html is put back as shipped.
RestoreTemplate ==
    /\ html.kind # "template"
    /\ html' = Template
    /\ UNCHANGED <<sheet, clock, cache, page, batch>>

----------------------------------------------------------------------------
(* The environment and the inputs *)

NameA == <<"A">>
NameB == <<"B">>
NameC == <<"C">>
NameD == <<"D">>
Blank == <<" ">>
Reason == <<"x">>

\* "Geteilte Kisten " as typed into the sheet
SharedTyped ==
    <<"G", "e", "t", "e", "i", "l", "t", "e", " ", "K", "i", "s", "t", "e", "n", " ">>

\* a name that only starts like the sentinel
NearShared == <<"g", "e", "t", "e", "i", "l", "t", "e">>

Markers == {NaN, <<>>, <<"J">>, <<" ", "J", " ">>, <<"j">>}

\* Rows of one person: every marker for one name, and every kind of name with
\* a blank marker; and the row with no cell filled in
PersonRows ==
    {Row(NameA, b, Reason, NaN) : b \in Markers}
    \cup {Row(n, <<>>, Reason, NaN) :
            n \in {NaN, <<" ", "C", " ">>, Blank, NearShared}}
    \cup {Row(NaN, NaN, NaN, NaN)}

\* Rows of shared boxes: every annotation, unpaid; one that is paid; and one
\* annotated row of a person
SharedRows ==
    {Row(SharedTyped, <<>>, NaN, a) : a \in Anmerkungen}
    \cup {Row(SharedTyped, <<"J">>, NaN, <<"A", ",", " ", "C">>),
          Row(NearShared, <<>>, NaN, <<"A", ",", " ", "C">>)}

RankRows ==
    {Row(n, <<>>, Reason, NaN) : n \in {NameA, NameB, NameC, NameD}}
    \cup {Row(NameA, <<"J">>, Reason, NaN)}

EditRows ==
    {Row(NameA, <<"J">>, Reason, NaN),
     Row(NameB, <<>>, Reason, NaN),
     Row(NaN, NaN, NaN, NaN)}

Tables(rows, n) == UNION {[1..k -> rows] : k \in 0..n}

\* Without the column Anmerkung no row has an annotation.
AggSheets ==
    {Sheet(t, TRUE) : t \in Tables(PersonRows \cup SharedRows, MaxRows)}
    \cup {Sheet(t, FALSE) :
            t \in Tables({r \in PersonRows \cup SharedRows : r.Anmerkung = NaN},
                         MaxRows)}

RankSheets == {Sheet(t, TRUE) : t \in Tables(RankRows, MaxRankRows)}

EditSheets ==
    {Sheet(t, TRUE) : t \in Tables(EditRows, MaxEditRows)} \cup {Unreadable}

\* Kistenliste.xlsx is saved with another content, or becomes unreadable.
EditSheet ==
    /\ \E s \in EditSheets \ {sheet} : sheet' = s
    /\ UNCHANGED <<clock, cache, page, html, batch>>

\* A minute passes.
Tick ==
    /\ clock < MaxClock
    /\ clock' = clock + 1
    /\ UNCHANGED <<sheet, cache, page, html, batch>>

----------------------------------------------------------------------------
(* Specifications *)

Fresh ==
    /\ clock = 0
    /\ cache = EmptyCache
    /\ page = NoPage
    /\ html = Template
    /\ batch = NoBatch

\* One table, loaded by both programs: the aggregation of a given input
Init ==
    /\ sheet \in AggSheets \cup RankSheets \cup {Unreadable}
    /\ Fresh

Next == PageLoad \/ BatchRun

Spec == Init /\ [][Next]_vars

\* The dashboard over a spreadsheet that changes between loads
InitEdited ==
    /\ sheet \in EditSheets
    /\ Fresh

NextApp == EditSheet \/ Tick \/ PageLoad \/ ClearCache

SpecApp == InitEdited /\ [][NextApp]_vars

\* Batch runs over a spreadsheet that changes between runs
NextBatch == EditSheet \/ Tick \/ BatchRun \/ DeleteHtml \/ RestoreTemplate

SpecBatch == InitEdited /\ [][NextBatch]_vars

----------------------------------------------------------------------------
(* What the claims are stated with *)

\* The table a page was made from: PageLoad leaves it in the cache.
PageDf == cache.value.df

Nan == <<"n", "a", "n">>

\* The marker of a raw cell, trimmed, is exactly "J".
TrimmedMarkerIsJ(cell) == cell # NaN /\ strip(cell) = <<"J">>

\* Every entry of df is paid exactly if its cell in rows says so.
ClassifiedAs(df, rows) ==
    /\ Len(df) = Len(rows)
    /\ \A k \in 1..Len(df) :
        /\ df[k].Bezahlt_Status \in {"Bezahlt", "Offen"}
        /\ df[k].Bezahlt_Status = "Bezahlt" <=> TrimmedMarkerIsJ(rows[k].Bezahlt)

\* An entry of shared boxes: the name, trimmed, is the sentinel in any case.
IsSharedEntry(row) == row.Name # NaN /\ lower(strip(row.Name)) = SharedName

\* The participants an annotation lists
Listed(row, anm) ==
    IF anm /\ row.Anmerkung # NaN THEN shared_names(row.Anmerkung) ELSE <<>>

\* The unpaid credit of person p, in units: of a shared entry that lists the
\* names l, 1/Len(l) for every time l names p (perListing), or 1/N where N
\* is the number of participants l names (~perListing)
EntryUnits(row, anm, p, perListing) ==
    IF row.Bezahlt_Status # "Offen" THEN 0
    ELSE IF IsSharedEntry(row)
    THEN LET l == Listed(row, anm)
         IN  IF l = <<>> THEN 0
             ELSE IF perListing THEN occurrences(l, p) * (Unit \div Len(l))
             ELSE IF occurrences(l, p) > 0
             THEN Unit \div Cardinality({l[k] : k \in 1..Len(l)})
             ELSE 0
    ELSE IF row.Name # NaN /\ strip(row.Name) = p THEN Unit ELSE 0

RECURSIVE OpenUnits(_, _, _, _)
OpenUnits(df, anm, p, perListing) ==
    IF df = <<>> THEN 0
    ELSE OpenUnits(SubSeq(df, 1, Len(df) - 1), anm, p, perListing)
         + EntryUnits(df[Len(df)], anm, p, perListing)

\* The names a table of open boxes can be about, but for the text "nan"
Persons(df, anm, table) ==
    ({r.Name : r \in table}
     \cup {strip(df[k].Name) : k \in {j \in 1..Len(df) : df[j].Name # NaN}}
     \cup UNION {{Listed(df[k], anm)[j] : j \in 1..Len(Listed(df[k], anm))} :
                    k \in 1..Len(df)})
    \ {Nan}

\* The table of open boxes has, for every person, the row of the person's
\* credit rounded to hundredths, and no row for a person without credit.
OpenBoxesAre(table, df, anm, perListing) ==
    \A p \in Persons(df, anm, table) :
        LET units == OpenUnits(df, anm, p, perListing)
        IN  {r \in table : r.Name = p}
            = IF units > 0
              THEN {[Name |-> p, Offene_Kisten |-> round2(units)]}
              ELSE {}

FirstSeen(col, x) ==
    CHOOSE k \in 1..Len(col) : col[k] = x /\ \A j \in 1..(k - 1) : col[j] # x

\* rows rank the persons of df: one row per person with the person's number
\* of entries, non-increasing, the medals on the first three rows only; and,
\* with stable, equal counts in the order in which the persons first appear
Ranks(rows, df, stable) ==
    LET col == Column(df, "Name")
        persons == {col[k] : k \in 1..Len(col)} \ {NaN}
        n == Len(rows)
    IN  /\ n = Cardinality(persons)
        /\ {rows[k].Name : k \in 1..n} = persons
        /\ \A k \in 1..n : rows[k].Anzahl = occurrences(col, rows[k].Name)
        /\ \A k \in 1..(n - 1) : rows[k].Anzahl >= rows[k + 1].Anzahl
        /\ \A k \in 1..n : rows[k].Medaille = "" <=> k > 3
        /\ \A j, k \in 1..n : j < k /\ k <= 3 => rows[j].Medaille # rows[k].Medaille
        /\ stable =>
            \A j, k \in 1..n :
                j < k /\ rows[j].Anzahl = rows[k].Anzahl
                => FirstSeen(col, rows[j].Name) < FirstSeen(col, rows[k].Name)

\* The ranks of the page are 1..n; the report prints the rank where there is
\* no medal.
RanksOfPage(rows, df, stable) ==
    /\ Ranks(rows, df, stable)
    /\ \A k \in 1..Len(rows) : rows[k].Rang = k

RanksOfReport(rows, df, stable) ==
    /\ Ranks(rows, df, stable)
    /\ \A k \in 1..Len(rows) : rows[k].Rang = IF k <= 3 THEN 0 ELSE k

\* load_data cannot load the sheet.
LoadFails(s) ==
    \/ ~s.readable
    \/ Len(s.rows) > 0 /\ \A k \in 1..Len(s.rows) : s.rows[k].Name = NaN

----------------------------------------------------------------------------
(* Claims *)

\* C1: in the table loaded by the dashboard and in the table loaded by the
\* batch run, every entry is "Bezahlt" exactly if its marker in the sheet,
\* trimmed, is "J", and "Offen" for every other marker: "j", blank, missing.
C1_PaidIffTrimmedJ ==
    /\ cache.filled /\ ~cache.value.none => ClassifiedAs(PageDf, sheet.rows)
    /\ batch.loaded => ClassifiedAs(batch.df, sheet.rows)

\* C1, its case: both programs have loaded a table with " J " (paid) in one
\* entry and "j" or a missing marker (unpaid) in another.
C1_Witness ==
    /\ cache.filled /\ batch.loaded
    /\ \E j, k \in 1..Len(sheet.rows) :
        /\ sheet.rows[j].Bezahlt = <<" ", "J", " ">>
        /\ sheet.rows[k].Bezahlt \in {<<"j">>, NaN}
        /\ PageDf[j].Bezahlt_Status = "Bezahlt"
        /\ batch.df[j].Bezahlt_Status = "Bezahlt"
        /\ PageDf[k].Bezahlt_Status = "Offen"
        /\ batch.df[k].Bezahlt_Status = "Offen"

\* C2, as claimed: in the table of open boxes every unpaid shared entry whose
\* annotation lists N >= 1 participants gives 1/N to each of the N, also
\* where the list names one of them twice, so that the shares of an entry
\* sum to 1; every other unpaid entry gives a full box to its name; the
\* table shows the sums, rounded to two decimals.
C2_EachListedGetsOneNth ==
    "open_boxes" \in page.sections
    => OpenBoxesAre(page.open_boxes, PageDf, cache.anm, FALSE)

PersonCountsAre(stats, df) ==
    LET col == Column(df, "Name")
    IN  /\ {r.Name : r \in stats} = {col[k] : k \in 1..Len(col)} \ {NaN}
        /\ \A r \in stats :
            /\ r.Bezahlt + r.Offen = occurrences(col, r.Name)
            /\ r.Gesamt = occurrences(col, r.Name)
            /\ \A q \in stats : q.Name = r.Name => q = r

\* Every person of stats has the count paid + unpaid in the ranking.
CountsMatchRanking(stats, rows) ==
    \A r \in stats :
        \E k \in 1..Len(rows) :
            rows[k].Name = r.Name /\ rows[k].Anzahl = r.Bezahlt + r.Offen

\* C4: for every person of name_stats, on the page and in the figure of the
\* report, paid + unpaid is the number of the person's entries in the table,
\* which is the person's count in the ranking; shares of shared boxes do not
\* enter.
C4_PaidPlusOpenIsTotal ==
    /\ "person_chart" \in page.sections
       => /\ PersonCountsAre(page.name_stats, PageDf)
          /\ "ranking" \in page.sections
             => CountsMatchRanking(page.name_stats, page.ranking)
    /\ html.kind = "report"
       => /\ PersonCountsAre(html.image.name_stats, batch.df)
          /\ CountsMatchRanking(html.image.name_stats, html.ranking_rows)

\* C4, its case: page and report show a person with a paid entry and an
\* unpaid entry whose marker is not blank.
C4_Witness ==
    /\ "ranking" \in page.sections
    /\ html.kind = "report"
    /\ \E r \in page.name_stats :
        /\ r.Bezahlt = 1 /\ r.Offen = 1
        /\ r \in html.image.name_stats
        /\ \E k \in 1..Len(PageDf) :
            PageDf[k].Name = r.Name /\ PageDf[k].Bezahlt = <<"j">>

\* The four metrics of the page, counted in the rows of the spreadsheet
SheetMetrics(s) ==
    LET rows == s.rows
        paid == {k \in 1..Len(rows) : TrimmedMarkerIsJ(rows[k].Bezahlt)}
    IN  [Gesamt |-> Len(rows),
         Bezahlt |-> Cardinality(paid),
         Offen |-> Len(rows) - Cardinality(paid),
         Personen |-> Cardinality({strip(rows[k].Name) :
                                    k \in {j \in 1..Len(rows) : rows[j].Name # NaN}})]

\* C5, as claimed: every page load shows the spreadsheet as it is at that
\* load: its metrics if it can be loaded, the error message if it cannot;
\* never the table or the failure of an earlier load.
C5_LoadShowsFileAsItIs ==
    [][PageLoad =>
        IF LoadFails(sheet)
        THEN page'.status = "stopped" /\ page'.error
        ELSE /\ "metrics" \in page'.sections
             /\ page'.metrics = SheetMetrics(sheet)]_vars

\* C6, as claimed: after every batch run that completed, index.html is the
\* report of that run: its time stamp, its four counts, its figure's counts
\* and its ranking are those of the table the run loaded.
C6_ReportIsOfThisRun ==
    batch.status = "done" /\ html.kind = "report"
    => /\ html.stamp = batch.stamp
       /\ html.gesamt = batch.stats.Gesamt
       /\ html.bezahlt = batch.stats.Bezahlt
       /\ html.offen = batch.stats.Offen
       /\ html.personen = batch.stats.Personen
       /\ html.image.bezahlt_counts = <<batch.stats.Bezahlt, batch.stats.Offen>>
       /\ RanksOfReport(html.ranking_rows, batch.df, FALSE)

\* C7: when the spreadsheet cannot be loaded, a page load ends stopped with
\* the error message and none of the metrics, charts and tables, the
\* function having returned None; a batch run ends with the exception of
\* load_data, nothing computed, and index.html as it was.
C7_LoadFailure ==
    LoadFails(sheet)
    => /\ page.status # "none"
          => /\ page.status = "stopped" /\ page.error
             /\ page.sections = {}
             /\ cache.filled /\ cache.value.none
       /\ batch.status # "none"
          => /\ batch.status = "raised" /\ batch.stage = "load_data"
             /\ ~batch.loaded /\ batch.stats = NoStats
             /\ html = Template

\* C7, its case: the file cannot be read, the page was loaded and the batch
\* was run.
C7_Witness ==
    /\ ~sheet.readable
    /\ page.status = "stopped"
    /\ batch.status = "raised"

\* C8: in the table of open boxes an unpaid entry is shared exactly if its
\* trimmed name is the sentinel in any case; a shared entry without
\* annotation, or with an annotation that lists nobody, credits nobody, the
\* sentinel included; every other unpaid entry credits one box to its name.
\* (An entry without a name is left to C9.)
C8_SharedIffSentinel ==
    "open_boxes" \in page.sections
    => OpenBoxesAre(page.open_boxes, PageDf, cache.anm, TRUE)

\* C8, its case: an unpaid entry under "Geteilte Kisten " whose annotation
\* lists nobody, next to an unpaid entry under "geteilte", which alone is in
\* the table of open boxes, with one box.
C8_Witness ==
    /\ "open_boxes" \in page.sections
    /\ Len(PageDf) = 2
    /\ \E j, k \in 1..2 :
        /\ PageDf[j].Name = strip(SharedTyped)
        /\ PageDf[j].Bezahlt_Status = "Offen"
        /\ cache.anm /\ PageDf[j].Anmerkung = <<" ", ",", " ">>
        /\ PageDf[k].Name = NearShared
        /\ PageDf[k].Bezahlt_Status = "Offen"
    /\ page.open_boxes = {[Name |-> NearShared, Offene_Kisten |-> 100]}

\* C9, as claimed: a spreadsheet that can be read is loaded by both
\* programs, whatever is missing or blank in its entries, and no entry
\* without a name is credited boxes under a name of its own.
C9_MissingFieldsNeverFail ==
    sheet.readable
    => /\ page.status # "stopped"
       /\ batch.stage # "load_data"
       /\ \A r \in page.open_boxes : r.Name # Nan

\* C10, as claimed: a batch run that comes to save_dashboard while there is
\* no index.html completes, and leaves a report.
C10_FallbackWithoutTemplate ==
    [][BatchRun /\ html.kind = "missing"
       /\ batch'.stage \notin {"load_data", "create_visualizations"}
       => batch'.status = "done" /\ html'.kind = "report"]_vars

\* Every entry of df has one of the two statuses, and the counts paid and
\* unpaid are the numbers of entries of each, so that they add up to total.
CountsPartition(df, total, paid, unpaid) ==
    /\ \A k \in 1..Len(df) : df[k].Bezahlt_Status \in {"Bezahlt", "Offen"}
    /\ total = Len(df)
    /\ paid = Cardinality({k \in 1..Len(df) : df[k].Bezahlt_Status = "Bezahlt"})
    /\ unpaid = Cardinality({k \in 1..Len(df) : df[k].Bezahlt_Status = "Offen"})
    /\ paid + unpaid = total

\* C11: for every loaded table, in the statistics of the batch run and in
\* the metrics of the page, paid + unpaid = total: every entry is exactly one
\* of "Bezahlt" and "Offen".
C11_PaidPlusUnpaidIsTotal ==
    /\ "metrics" \in page.sections
       => CountsPartition(PageDf, page.metrics.Gesamt, page.metrics.Bezahlt,
                          page.metrics.Offen)
    /\ batch.loaded
       => CountsPartition(batch.df, batch.stats.Gesamt, batch.stats.Bezahlt,
                          batch.stats.Offen)

\* C11, its case: both programs have counted a table of two entries, one
\* paid and one whose marker is "j" or missing, as 1 paid and 1 unpaid.
C11_Witness ==
    /\ "metrics" \in page.sections /\ batch.loaded
    /\ Len(sheet.rows) = 2
    /\ \E j, k \in 1..2 :
        /\ TrimmedMarkerIsJ(sheet.rows[j].Bezahlt)
        /\ sheet.rows[k].Bezahlt \in {<<"j">>, NaN}
    /\ page.metrics.Bezahlt = 1 /\ page.metrics.Offen = 1
    /\ batch.stats.Bezahlt = 1 /\ batch.stats.Offen = 1
    /\ batch.stats.Gesamt = 2

====
